---- MODULE Spec2Model ----
(***************************************************************************)
(* License-plate recognition API (Deep-Learning/api_server.py).            *)
(*                                                                         *)
(* POST /recognize: intake of an image submission, the plate detector, the *)
(* saved crop, the call of the extraction service, the parse ladder over   *)
(* its reply, the deletion of the upload and the response.  Requests run   *)
(* concurrently (one thread per request) over the same upload and output   *)
(* folders.                                                                *)
(*                                                                         *)
(* A reply's content is a sequence of tokens.  A token stands for a fixed  *)
(* piece of text: the punctuation of JSON, a string literal (named by the  *)
(* text between its quotes), a digit, null, true, a blank, or a word of    *)
(* prose.  The text of a content is the concatenation of its tokens.       *)
(***************************************************************************)
EXTENDS Integers, Sequences, FiniteSets, TLC

\* ------------------------------------------------------------------------
\* Tokens of a reply

\* api_server.py:184
required_fields == {"left_number", "middle_text", "right_number"}

\* The sentinel of api_server.py:190-192, 204-206 and 358-360, as a JSON value.
UNREADABLE == <<"UNREADABLE">>

\* String literals: "left_number" is the text "left_number" in quotes, and so on.
\* "a}b" and "a{b" are string literals whose text holds a brace.
AllNames == "left_number middle_text right_number"
StringToks ==
    required_fields \cup {"x", "y", "UNREADABLE", AllNames, "a}b", "a{b"}

Digit == "7"
Blank == " "
Prose == "Here"

\* The field names that are substrings of a string literal's text.
NamesIn(tok) ==
    IF tok = AllNames THEN required_fields
    ELSE IF tok \in required_fields THEN {tok}
    ELSE {}

\* ------------------------------------------------------------------------
\* str.strip() of api_server.py:175

RECURSIVE LStrip(_)
LStrip(s) ==
    IF s # <<>> /\ Head(s) = Blank THEN LStrip(Tail(s)) ELSE s

RECURSIVE RStrip(_)
RStrip(s) ==
    IF s # <<>> /\ s[Len(s)] = Blank THEN RStrip(SubSeq(s, 1, Len(s) - 1)) ELSE s

Strip(s) == RStrip(LStrip(s))

\* ------------------------------------------------------------------------
\* json.loads over tokens

RECURSIVE SkipWs(_, _)
SkipWs(s, i) ==
    IF i <= Len(s) /\ s[i] = Blank THEN SkipWs(s, i + 1) ELSE i

\* A number is a maximal run of digits.
RECURSIVE NumEnd(_, _)
NumEnd(s, i) ==
    IF i <= Len(s) /\ s[i] = Digit THEN NumEnd(s, i + 1) ELSE i

\* ValueEnd(s, i): the index after the JSON value that starts (after blanks)
\* at i, or 0 when no value starts there.
RECURSIVE ValueEnd(_, _)
RECURSIVE MembersEnd(_, _)
RECURSIVE ElemsEnd(_, _)
ValueEnd(s, i) ==
    LET j == SkipWs(s, i) IN
    IF j > Len(s) THEN 0
    ELSE IF s[j] \in StringToks \cup {"null", "true"} THEN j + 1
    ELSE IF s[j] = Digit THEN NumEnd(s, j)
    ELSE IF s[j] = "{" THEN
        LET k == SkipWs(s, j + 1) IN
        IF k <= Len(s) /\ s[k] = "}" THEN k + 1 ELSE MembersEnd(s, k)
    ELSE IF s[j] = "[" THEN
        LET k == SkipWs(s, j + 1) IN
        IF k <= Len(s) /\ s[k] = "]" THEN k + 1 ELSE ElemsEnd(s, k)
    ELSE 0

\* k is where a key must stand.
MembersEnd(s, k) ==
    IF k > Len(s) \/ s[k] \notin StringToks THEN 0
    ELSE LET c == SkipWs(s, k + 1) IN
         IF c > Len(s) \/ s[c] # ":" THEN 0
         ELSE LET e == ValueEnd(s, c + 1) IN
              IF e = 0 THEN 0
              ELSE LET d == SkipWs(s, e) IN
                   IF d > Len(s) THEN 0
                   ELSE IF s[d] = "}" THEN d + 1
                   ELSE IF s[d] = "," THEN MembersEnd(s, SkipWs(s, d + 1))
                   ELSE 0

\* k is where an element must stand.
ElemsEnd(s, k) ==
    LET e == ValueEnd(s, k) IN
    IF e = 0 THEN 0
    ELSE LET d == SkipWs(s, e) IN
         IF d > Len(s) THEN 0
         ELSE IF s[d] = "]" THEN d + 1
         ELSE IF s[d] = "," THEN ElemsEnd(s, d + 1)
         ELSE 0

\* A value as data: its tokens without the blanks.
Compact(s) == SelectSeq(s, LAMBDA t : t # Blank)

EmptyDict == [k \in {} |-> <<>>]

Put(d, k, v) == [x \in DOMAIN d \cup {k} |-> IF x = k THEN v ELSE d[x]]

\* The members of a well-formed object from its first key on; a repeated key
\* keeps its last value.
RECURSIVE Members(_, _, _)
Members(s, k, acc) ==
    LET c == SkipWs(s, k + 1)
        e == ValueEnd(s, c + 1)
        d == SkipWs(s, e)
        got == Put(acc, s[k], Compact(SubSeq(s, c + 1, e - 1)))
    IN  IF s[d] = "}" THEN got ELSE Members(s, SkipWs(s, d + 1), got)

\* The elements of a well-formed array from its first element on.
RECURSIVE Elems(_, _, _)
Elems(s, k, acc) ==
    LET e == ValueEnd(s, k)
        d == SkipWs(s, e)
        got == Append(acc, Compact(SubSeq(s, k, e - 1)))
    IN  IF s[d] = "]" THEN got ELSE Elems(s, d + 1, got)

\* json.loads(s): ok is FALSE for json.JSONDecodeError; otherwise type is the
\* Python type of the value, dict its items, list its elements, str its text.
NoValue == [ok |-> FALSE, type |-> "", dict |-> EmptyDict, list |-> <<>>, str |-> ""]

json_loads(s) ==
    LET i == SkipWs(s, 1)
        e == ValueEnd(s, 1)
    IN  IF e = 0 \/ SkipWs(s, e) # Len(s) + 1 THEN NoValue
        ELSE IF s[i] = "{" THEN
            LET k == SkipWs(s, i + 1) IN
            [NoValue EXCEPT !.ok = TRUE, !.type = "dict",
                !.dict = IF s[k] = "}" THEN EmptyDict ELSE Members(s, k, EmptyDict)]
        ELSE IF s[i] = "[" THEN
            LET k == SkipWs(s, i + 1) IN
            [NoValue EXCEPT !.ok = TRUE, !.type = "list",
                !.list = IF s[k] = "]" THEN <<>> ELSE Elems(s, k, <<>>)]
        ELSE IF s[i] \in StringToks THEN
            [NoValue EXCEPT !.ok = TRUE, !.type = "str", !.str = s[i]]
        ELSE IF s[i] = Digit THEN [NoValue EXCEPT !.ok = TRUE, !.type = "int"]
        ELSE IF s[i] = "true" THEN [NoValue EXCEPT !.ok = TRUE, !.type = "bool"]
        ELSE [NoValue EXCEPT !.ok = TRUE, !.type = "NoneType"]

\* ------------------------------------------------------------------------
\* re.search(r'\{[^{}]*\}', response_content) of api_server.py:198

Opens(tok) == tok \in {"{", "a{b"}
Closes(tok) == tok \in {"}", "a}b"}

\* A match starts at an opening brace whose next brace is a closing one.
MatchAt(s, i) ==
    /\ Opens(s[i])
    /\ \E j \in (i + 1)..Len(s) :
          /\ Closes(s[j])
          /\ \A k \in (i + 1)..(j - 1) : ~Opens(s[k]) /\ ~Closes(s[k])

MatchEnd(s, i) == CHOOSE j \in (i + 1)..Len(s) :
    Closes(s[j]) /\ \A k \in (i + 1)..(j - 1) : ~Opens(s[k]) /\ ~Closes(s[k])

\* A search that takes the last brace pair of the content.
MatchStart_Last(s) ==
    IF \E i \in 1..Len(s) : MatchAt(s, i)
    THEN CHOOSE i \in 1..Len(s) : MatchAt(s, i) /\ \A h \in (i + 1)..Len(s) : ~MatchAt(s, h)
    ELSE 0

\* re.search tries the start positions from the left.
MatchStart(s) ==
    IF \E i \in 1..Len(s) : MatchAt(s, i)
    THEN CHOOSE i \in 1..Len(s) : MatchAt(s, i) /\ \A h \in 1..(i - 1) : ~MatchAt(s, h)
    ELSE 0

\* json_match.group(): the text from the opening to the closing brace.  A
\* brace inside a string literal cuts the literal: what is left of it is no
\* token of JSON.
MatchGroup(s, i) ==
    LET j == MatchEnd(s, i) IN
    (IF s[i] = "{" THEN <<"{">> ELSE <<"{", "b\"">>)
        \o SubSeq(s, i + 1, j - 1)
        \o (IF s[j] = "}" THEN <<"}">> ELSE <<"\"a", "}">>)

\* ------------------------------------------------------------------------
\* The reply parser of extract_text_with_llm, api_server.py:173-215

OPENAI_MODEL == "gpt-4.1"

NoPlate == [type |-> "NoneType", dict |-> EmptyDict]

\* The usage metadata of a reply, and the error records of the failures.
Usage ==
    [error |-> "", status_code |-> 0, message |-> "", raw_response |-> <<>>, has_raw |-> FALSE]
ErrorInfo(msg) == [Usage EXCEPT !.error = msg]
ParseErrorInfo(content) ==
    [Usage EXCEPT !.error = "Failed to parse JSON response from LLM",
                  !.raw_response = content, !.has_raw = TRUE]

Returned(plate) == [plate_data |-> plate, model_used |-> OPENAI_MODEL, usage_info |-> Usage]
Failed(info) == [plate_data |-> NoPlate, model_used |-> "", usage_info |-> info]

\* api_server.py:235-239
Unexpected == Failed(ErrorInfo("Unexpected error in extract_text_with_llm"))

\* Defaults that replace the whole record when a field is missing.
SetDefaults_Overwrite(d) ==
    [f \in required_fields |->
        IF required_fields \subseteq DOMAIN d THEN d[f] ELSE UNREADABLE]

\* api_server.py:189-193 and 203-207
SetDefaults(d) ==
    [f \in required_fields |-> IF f \in DOMAIN d THEN d[f] ELSE UNREADABLE]

\* `field in plate_data` of api_server.py:185, for the types that have it.
FieldIn(field, v) ==
    IF v.type = "dict" THEN field \in DOMAIN v.dict
    ELSE IF v.type = "list" THEN \E n \in 1..Len(v.list) : v.list[n] = <<field>>
    ELSE field \in NamesIn(v.str)

\* api_server.py:179-196: the direct parse.  decoded is FALSE when json.loads
\* raised JSONDecodeError, and the ladder goes on to the embedded object.
DirectParse(content) ==
    LET v == json_loads(content) IN
    IF ~v.ok THEN [decoded |-> FALSE, result |-> Failed(ParseErrorInfo(content))]
    ELSE [decoded |-> TRUE, result |->
        IF v.type \notin {"dict", "list", "str"} THEN Unexpected
        ELSE IF \A f \in required_fields : FieldIn(f, v)
            THEN Returned([type |-> v.type, dict |-> v.dict])
        ELSE IF v.type = "dict"
            THEN Returned([type |-> "dict", dict |-> SetDefaults(v.dict)])
        ELSE Unexpected]

\* api_server.py:196-215: the embedded object.
EmbeddedParse(content) ==
    LET i == MatchStart(content) IN
    IF i = 0 THEN Failed(ParseErrorInfo(content))
    ELSE LET v == json_loads(MatchGroup(content, i)) IN
         IF v.ok
         THEN Returned([type |-> "dict", dict |-> SetDefaults(v.dict)])
         ELSE Failed(ParseErrorInfo(content))

\* The whole ladder on a stripped content.
ParseReply(content) ==
    IF DirectParse(content).decoded THEN DirectParse(content).result
    ELSE EmbeddedParse(content)

\* ------------------------------------------------------------------------
\* File names: sequences of characters

ALLOWED_EXTENSIONS ==
    { <<"p", "n", "g">>, <<"j", "p", "g">>, <<"j", "p", "e", "g">>,
      <<"g", "i", "f">>, <<"b", "m", "p">> }

UpperCase == <<"A", "B", "C", "D", "E", "F", "G", "H", "I", "J", "K", "L", "M",
               "N", "O", "P", "Q", "R", "S", "T", "U", "V", "W", "X", "Y", "Z">>
LowerCase == <<"a", "b", "c", "d", "e", "f", "g", "h", "i", "j", "k", "l", "m",
               "n", "o", "p", "q", "r", "s", "t", "u", "v", "w", "x", "y", "z">>
Digits == {"0", "1", "2", "3", "4", "5", "6", "7", "8", "9"}

\* str.lower()
LowerChar(c) ==
    IF \E i \in 1..26 : UpperCase[i] = c
    THEN LowerCase[CHOOSE i \in 1..26 : UpperCase[i] = c]
    ELSE c
lower(s) == [i \in 1..Len(s) |-> LowerChar(s[i])]

\* The index of the last "." of a name, or 0.
LastDot(s) ==
    IF \E i \in 1..Len(s) : s[i] = "."
    THEN CHOOSE i \in 1..Len(s) : s[i] = "." /\ \A j \in (i + 1)..Len(s) : s[j] # "."
    ELSE 0

\* A check that asks for an extension and not for which one.
allowed_file_AnyExtension(filename) == LastDot(filename) # 0

\* api_server.py:49-51
allowed_file(filename) ==
    /\ LastDot(filename) # 0
    /\ lower(SubSeq(filename, LastDot(filename) + 1, Len(filename))) \in ALLOWED_EXTENSIONS

\* werkzeug's secure_filename, called at api_server.py:309, on names of ASCII
\* characters: path separators become blanks, the words that str.split()
\* finds between whitespace are joined by "_", every character outside
\* [A-Za-z0-9_.-] is dropped, and leading and trailing "." and "_" are stripped.
\* The separators of str.split(): the blank, \t, \n, \r, \f, and the characters
\* of codes 11 (VT), 28, 29, 30 and 31 (FS, GS, RS, US), which stand in the
\* strings below as they are.
WhiteSpace ==
    {" ", "\t", "\n", "\r", "\f", "", "", "", "", ""}

SafeChar(c) ==
    \/ \E i \in 1..26 : UpperCase[i] = c \/ LowerCase[i] = c
    \/ c \in Digits \cup {"_", ".", "-"}

RECURSIVE JoinWords(_, _)
JoinWords(s, started) ==
    IF s = <<>> THEN <<>>
    ELSE IF Head(s) \in WhiteSpace THEN JoinWords(Tail(s), started)
    ELSE LET sep == IF started THEN <<"_">> ELSE <<>>
             n == IF \E i \in 1..Len(s) : s[i] \in WhiteSpace
                  THEN (CHOOSE i \in 1..Len(s) :
                            s[i] \in WhiteSpace /\ \A j \in 1..(i - 1) : s[j] \notin WhiteSpace) - 1
                  ELSE Len(s)
         IN  sep \o SubSeq(s, 1, n) \o JoinWords(SubSeq(s, n + 1, Len(s)), TRUE)

RECURSIVE StripDots(_)
StripDots(s) ==
    IF s # <<>> /\ Head(s) \in {".", "_"} THEN StripDots(Tail(s))
    ELSE IF s # <<>> /\ s[Len(s)] \in {".", "_"} THEN StripDots(SubSeq(s, 1, Len(s) - 1))
    ELSE s

secure_filename(filename) ==
    LET spaced == [i \in 1..Len(filename) |->
                      IF filename[i] = "/" THEN " " ELSE filename[i]]
    IN  StripDots(SelectSeq(JoinWords(spaced, FALSE), SafeChar))

\* os.path.splitext(name)[0]: the name up to its last ".", unless only dots
\* stand before it.
splitext_root(name) ==
    LET d == LastDot(name) IN
    IF d # 0 /\ \E i \in 1..(d - 1) : name[i] # "."
    THEN SubSeq(name, 1, d - 1)
    ELSE name

\* api_server.py:331-332
extracted_filename(input_filename) ==
    splitext_root(input_filename) \o <<"_Licence_Plate_extracted.jpg">>

\* ------------------------------------------------------------------------
\* Requests

\* The requests in flight at one time; a request that has been answered makes
\* room for the next one (NextRequest).
Reqs == {"r1", "r2"}

\* file.filename of a multipart field
F_empty == <<>>
F_jpg == <<"a", ".", "j", "p", "g">>
F_JPG == <<"a", ".", "J", "P", "G">>
F_exe == <<"a", ".", "e", "x", "e">>
F_noext == <<"a">>
F_dot == <<"a", ".">>
F_trav == <<".", ".", "/", "a", ".", "j", "p", "g">>
FileNames == {F_empty, F_jpg, F_JPG, F_exe, F_noext, F_dot, F_trav}

\* request.files: the multipart fields that carry a file.
\* One field, image or file, with each name; both fields, with an empty, a
\* good or a bad name in the one and the other; a field of another name.
FilesMaps ==
    { [k \in {"image"} |-> n] : n \in FileNames }
    \cup { [k \in {"file"} |-> n] : n \in {F_empty, F_jpg, F_exe} }
    \cup { [k \in {"image", "file"} |-> IF k = "image" THEN p[1] ELSE p[2]] :
             p \in ({F_empty} \X {F_empty, F_jpg, F_exe})
                      \cup {<<F_jpg, F_exe>>, <<F_exe, F_jpg>>} }
    \cup { [k \in {"photo"} |-> F_jpg] }
NoFiles == [k \in {} |-> <<>>]

\* request.content_type, as its characters; <<>> when the request has none.
CT_none == <<>>
CT_jpeg == <<"i", "m", "a", "g", "e", "/", "j", "p", "e", "g">>
CT_text_image == <<"t", "e", "x", "t", "/", "i", "m", "a", "g", "e">>
CT_plain == <<"t", "e", "x", "t", "/", "p", "l", "a", "i", "n">>
CT_multipart == <<"m", "u", "l", "t", "i", "p", "a", "r", "t", "/",
                  "f", "o", "r", "m", "-", "d", "a", "t", "a">>

\* A submission: request.files, request.content_type and the length of
\* request.data.
Submissions ==
    { [files |-> f, content_type |-> CT_multipart, data |-> 0] :
        f \in FilesMaps \ {NoFiles} }
    \cup
    { [files |-> NoFiles, content_type |-> ct, data |-> 1] :
        ct \in {CT_none, CT_jpeg, CT_text_image, CT_plain} }
    \cup
    { [files |-> NoFiles, content_type |-> ct, data |-> 0] : ct \in {CT_jpeg, CT_multipart} }

NoRequest == [files |-> NoFiles, content_type |-> <<"-">>, data |-> 0]

\* `request.content_type and 'image' in request.content_type` of
\* api_server.py:273: the five characters stand somewhere in it.
ImageType(ct) ==
    \E i \in 1..(Len(ct) - 4) : SubSeq(ct, i, i + 4) = <<"i", "m", "a", "g", "e">>

\* api_server.py:286
uploaded_image == <<"uploaded_image", ".", "j", "p", "g">>

\* tempfile.NamedTemporaryFile(delete=False, suffix='.jpg', dir=UPLOAD_FOLDER),
\* api_server.py:282: a name no other request has.
TempName(r) == <<"tmp", r, ".", "j", "p", "g">>

\* api_server.py:294: request.files.get('image') or request.files.get('file').
\* A FileStorage with an empty filename is false; given is FALSE for None.
ChosenFile(files) ==
    IF "image" \in DOMAIN files /\ files["image"] # <<>>
    THEN [given |-> TRUE, filename |-> files["image"]]
    ELSE IF "file" \in DOMAIN files
    THEN [given |-> TRUE, filename |-> files["file"]]
    ELSE [given |-> FALSE, filename |-> <<>>]

\* The error texts of the responses.
E_NoImage == "No image file provided"
E_NoFile == "No file selected"
E_Type == "Invalid file type"
E_NoPlate == "Could not detect license plate in the image"
E_Extract == "Failed to extract text from license plate"
E_Internal == "Internal server error"

\* api_server.py:271-312: what intake decides.  "reject": a 400 with error;
\* "raise": an exception (None has no filename); "raw" and "file": the upload
\* is written under name, and input_filename is kept for the crop's name.
Decision(kind, error, name, input) ==
    [kind |-> kind, error |-> error, name |-> name, input_filename |-> input]

Intake(req, r) ==
    IF "image" \notin DOMAIN req.files /\ "file" \notin DOMAIN req.files THEN
        IF ImageType(req.content_type) THEN
            IF req.data = 0 THEN Decision("reject", E_NoImage, <<>>, <<>>)
            ELSE Decision("raw", "", TempName(r), uploaded_image)
        ELSE Decision("reject", E_NoImage, <<>>, <<>>)
    ELSE
        LET file == ChosenFile(req.files) IN
        IF ~file.given THEN Decision("raise", "", <<>>, <<>>)
        ELSE IF file.filename = <<>> THEN Decision("reject", E_NoFile, <<>>, <<>>)
        ELSE IF ~allowed_file(file.filename)
            THEN Decision("reject", E_Type, <<>>, <<>>)
        ELSE Decision("file", "", secure_filename(file.filename),
                      secure_filename(file.filename))

\* ------------------------------------------------------------------------
\* Responses

\* json is FALSE for a response the handler did not build (the server's own
\* 500 page for an exception that leaves the handler).
NoResponse ==
    [status |-> 0, json |-> FALSE, success |-> FALSE, error |-> "",
     fields |-> EmptyDict, model |-> "", details |-> Usage]

ErrorResponse(status, error) ==
    [NoResponse EXCEPT !.status = status, !.json = TRUE, !.error = error]

\* api_server.py:345-349
ExtractFailure(info) ==
    [ErrorResponse(500, E_Extract) EXCEPT !.details = info]

\* A success body that leaves out the fields that were not read.
SuccessResponse_Readable(plate, model, usage) ==
    [NoResponse EXCEPT !.status = 200, !.json = TRUE, !.success = TRUE,
        !.fields = [f \in { g \in required_fields \cap DOMAIN plate.dict :
                               plate.dict[g] # UNREADABLE } |-> plate.dict[f]],
        !.model = model, !.details = usage]

\* api_server.py:356-365
SuccessResponse(plate, model, usage) ==
    [NoResponse EXCEPT !.status = 200, !.json = TRUE, !.success = TRUE,
        !.fields = [f \in required_fields |->
                       IF f \in DOMAIN plate.dict THEN plate.dict[f] ELSE UNREADABLE],
        !.model = model, !.details = usage]

\* The server's answer to an exception raised inside the except block.
ServerError == [NoResponse EXCEPT !.status = 500]

\* ------------------------------------------------------------------------
\* The extraction service and the detector

\* What requests.post of api_server.py:165-170 comes to:
\*   "timeout", "unreachable": the call raised Timeout or another
\*       RequestException;
\*   "status": a reply with a status other than 200, whose body is a JSON
\*       object with error.message ("json_message"), a JSON object with no
\*       error or an error object without message ("json"), JSON that is no
\*       object or whose error is no object ("json_other"), or no JSON ("text");
\*   "notjson": a 200 whose body is no JSON: response.json() at 174 raises
\*       requests' JSONDecodeError, which is a RequestException;
\*   "malformed": a 200 whose body is JSON without choices[0].message.content;
\*   "ok": a 200 with a content.
Outcome(kind, code, body, content) ==
    [kind |-> kind, status_code |-> code, body |-> body, content |-> content]

ServiceMessage == "Incorrect API key provided"

\* Contents the service answers with, one or more for each step of the ladder.
Obj3 == <<"{", "left_number", ":", "x", ",", "middle_text", ":", "y", ",",
          "right_number", ":", "7", "}">>
SampleReplies ==
    { Obj3,
      <<" ", "{", "left_number", ":", "x", "}", " ">>,
      <<"{", "}">>,
      <<"Here", " ", "{", "right_number", ":", "UNREADABLE", "}", "Here">>,
      <<"Here", "{", "Here", "}", "{", "left_number", ":", "x", "}">>,
      <<"Here">>,
      <<"[", "left_number", ",", "middle_text", ",", "right_number", "]">>,
      <<AllNames>>,
      <<"7">> }

Outcomes(replies) ==
    { Outcome("timeout", 0, "", <<>>), Outcome("unreachable", 0, "", <<>>),
      Outcome("malformed", 200, "json", <<>>), Outcome("notjson", 200, "text", <<>>) }
    \cup { Outcome("status", 401, "json_message", <<>>),
           Outcome("status", 500, "json", <<>>),
           Outcome("status", 500, "json_other", <<>>),
           Outcome("status", 503, "text", <<>>) }
    \cup { Outcome("ok", 200, "", raw) : raw \in replies }

\* A handler for RequestException that comes before the one for Timeout and
\* takes the timeouts too.
CallFailure_RequestException(o) ==
    IF o.kind \in {"timeout", "unreachable", "notjson"}
    THEN Failed(ErrorInfo("Error connecting to OpenAI API"))
    ELSE IF o.kind = "status" THEN
        Failed([ErrorInfo("OpenAI API error") EXCEPT
                    !.status_code = o.status_code,
                    !.message = IF o.body = "json_message" THEN ServiceMessage
                                ELSE IF o.body = "json" THEN "Unknown error"
                                ELSE "response.text"])
    ELSE Unexpected

\* api_server.py:174 and 216-239: the failures of the call.  The handler of
\* RequestException (231-234) takes the connection failures and the 200 whose
\* body is no JSON; the message of a status reply is error.message, "Unknown
\* error" when the JSON object has none, and response.text when reading it
\* raised (222-223).
CallFailure(o) ==
    IF o.kind = "timeout" THEN Failed(ErrorInfo("OpenAI API request timed out"))
    ELSE IF o.kind \in {"unreachable", "notjson"}
        THEN Failed(ErrorInfo("Error connecting to OpenAI API"))
    ELSE IF o.kind = "status" THEN
        Failed([ErrorInfo("OpenAI API error") EXCEPT
                    !.status_code = o.status_code,
                    !.message = IF o.body = "json_message" THEN ServiceMessage
                                ELSE IF o.body = "json" THEN "Unknown error"
                                ELSE "response.text"])
    ELSE Unexpected

\* What LP_detection.LP_detection(image_path) returns as LP_extracted: None, an
\* array of size 0, a crop; or it raises.
Detections == {"None", "empty", "crop", "raise"}

\* A test for None that forgets the array of size 0.
NotDetected_NoneOnly(LP_extracted) == LP_extracted = "None"

\* api_server.py:318
NotDetected(LP_extracted) == LP_extracted = "None" \/ LP_extracted = "empty"

\* ------------------------------------------------------------------------
\* State

VARIABLES
    OPENAI_API_KEY,     \* whether the key is configured (api_server.py:41)
    uploads,            \* UPLOAD_FOLDER: file name -> the request whose bytes it holds
    output,             \* OUTPUT_FOLDER: file name -> the request whose crop it holds
    pc,                 \* where each request's handler stands
    request,            \* the submission, until the detector has the upload
    image_path,         \* the upload's name under UPLOAD_FOLDER, <<>> while unset
    input_filename,
    LP_extracted,
    response_content,
    extraction,         \* plate_data, model_used, usage_info of api_server.py:338
    response,
    api_response,       \* what requests.post came to (api_server.py:165), "-" before
    calls               \* how often the request called the detector, the service
                        \* and os.remove

vars == <<OPENAI_API_KEY, uploads, output, pc, request, image_path,
          input_filename, LP_extracted, response_content, extraction,
          response, api_response, calls>>

NoFolder == [n \in {} |-> ""]
NoCalls == [detector |-> 0, llm |-> 0, remove |-> 0]
\* response_content before api_server.py:175 assigns it
NoContent == <<"(unset)">>
NoExtraction == Failed(Usage)
NoReply == [kind |-> "-", status_code |-> 0, body |-> ""]

exists(folder, name) == name \in DOMAIN folder
remove(folder, name) == [n \in DOMAIN folder \ {name} |-> folder[n]]
write(folder, name, r) ==
    [n \in DOMAIN folder \cup {name} |-> IF n = name THEN r ELSE folder[n]]
Holder(folder, name) == IF exists(folder, name) THEN folder[name] ELSE "missing"

Fresh(r) ==
    /\ request' = [request EXCEPT ![r] = NoRequest]
    /\ image_path' = [image_path EXCEPT ![r] = <<>>]
    /\ input_filename' = [input_filename EXCEPT ![r] = <<>>]
    /\ LP_extracted' = [LP_extracted EXCEPT ![r] = "unset"]
    /\ response_content' = [response_content EXCEPT ![r] = NoContent]
    /\ extraction' = [extraction EXCEPT ![r] = NoExtraction]
    /\ response' = [response EXCEPT ![r] = NoResponse]
    /\ api_response' = [api_response EXCEPT ![r] = NoReply]
    /\ calls' = [calls EXCEPT ![r] = NoCalls]

Init ==
    /\ OPENAI_API_KEY \in BOOLEAN
    /\ uploads = NoFolder
    /\ output = NoFolder
    /\ pc = [r \in Reqs |-> "idle"]
    /\ request = [r \in Reqs |-> NoRequest]
    /\ image_path = [r \in Reqs |-> <<>>]
    /\ input_filename = [r \in Reqs |-> <<>>]
    /\ LP_extracted = [r \in Reqs |-> "unset"]
    /\ response_content = [r \in Reqs |-> NoContent]
    /\ extraction = [r \in Reqs |-> NoExtraction]
    /\ response = [r \in Reqs |-> NoResponse]
    /\ api_response = [r \in Reqs |-> NoReply]
    /\ calls = [r \in Reqs |-> NoCalls]

\* ------------------------------------------------------------------------
\* recognize_license_plate, api_server.py:269-377, one step at a time

Respond(r, resp) ==
    /\ response' = [response EXCEPT ![r] = resp]
    /\ pc' = [pc EXCEPT ![r] = "done"]

\* api_server.py:271-312: intake, and the upload written.
Receive(r) ==
    /\ pc[r] = "idle"
    /\ \E req \in Submissions :
        LET d == Intake(req, r) IN
        /\ IF d.kind = "reject" THEN Respond(r, ErrorResponse(400, d.error))
           ELSE /\ pc' = [pc EXCEPT ![r] = IF d.kind = "raise" THEN "except" ELSE "detect"]
                /\ UNCHANGED response
        /\ request' = [request EXCEPT ![r] = req]
        /\ uploads' = IF d.kind \in {"raw", "file"} THEN write(uploads, d.name, r)
                      ELSE uploads
        /\ image_path' = [image_path EXCEPT ![r] = d.name]
        /\ input_filename' = [input_filename EXCEPT ![r] = d.input_filename]
    /\ UNCHANGED <<OPENAI_API_KEY, api_response, output, LP_extracted, response_content,
                   extraction, calls>>

\* api_server.py:316-318: the detector reads the upload.  Without a file to
\* read it finds no crop.
Detect(r) ==
    /\ pc[r] = "detect"
    /\ \E d \in Detections :
        /\ exists(uploads, image_path[r]) \/ d \in {"None", "raise"}
        /\ LP_extracted' = [LP_extracted EXCEPT ![r] = IF d = "raise" THEN "unset" ELSE d]
        /\ pc' = [pc EXCEPT ![r] =
                     IF d = "raise" THEN "except"
                     ELSE IF NotDetected(d) THEN "notfound"
                     ELSE "imwrite"]
    /\ calls' = [calls EXCEPT ![r].detector = @ + 1]
    /\ request' = [request EXCEPT ![r] = NoRequest]
    /\ UNCHANGED <<OPENAI_API_KEY, api_response, uploads, output, image_path,
                   input_filename, response_content, extraction, response>>

\* api_server.py:331-334: the crop written under the output folder.
SaveCrop(r) ==
    /\ pc[r] = "imwrite"
    /\ output' = write(output, extracted_filename(input_filename[r]), r)
    /\ pc' = [pc EXCEPT ![r] = "llm"]
    /\ UNCHANGED <<OPENAI_API_KEY, api_response, uploads, request, image_path, input_filename,
                   LP_extracted, response_content, extraction, response, calls>>

\* A handler that calls the extraction again when it gave no record.
AfterExtraction_Retry(ext) == IF ext.plate_data.type = "NoneType" THEN "llm" ELSE "ok"

\* api_server.py:340: `if plate_data is None`
AfterExtraction(ext) == IF ext.plate_data.type = "NoneType" THEN "failed" ELSE "ok"

\* api_server.py:82-170: the key, the crop read and encoded, the request sent.
\* The handler then waits inside requests.post for the reply.
CallLLM(r) ==
    /\ pc[r] = "llm"
    /\ IF ~OPENAI_API_KEY THEN
            /\ extraction' = [extraction EXCEPT ![r] =
                                 Failed(ErrorInfo("OPENAI_API_KEY not configured"))]
            /\ pc' = [pc EXCEPT ![r] = "failed"]
            /\ UNCHANGED calls
       ELSE IF ~exists(output, extracted_filename(input_filename[r])) THEN
            /\ extraction' = [extraction EXCEPT ![r] = Unexpected]
            /\ pc' = [pc EXCEPT ![r] = "failed"]
            /\ UNCHANGED calls
       ELSE
            /\ calls' = [calls EXCEPT ![r].llm = @ + 1]
            /\ pc' = [pc EXCEPT ![r] = "reply"]
            /\ UNCHANGED extraction
    /\ UNCHANGED <<OPENAI_API_KEY, api_response, uploads, output, request, image_path,
                   input_filename, LP_extracted, response_content, response>>

\* api_server.py:165-176 and 216-239: requests.post returns or raises, and
\* the content is taken from a reply with status 200.
ReplyLLM(r, replies) ==
    /\ pc[r] = "reply"
    /\ \E o \in Outcomes(replies) :
        /\ api_response' = [api_response EXCEPT ![r] =
                [kind |-> o.kind, status_code |-> o.status_code, body |-> o.body]]
        /\ IF o.kind = "ok" THEN
               /\ response_content' = [response_content EXCEPT ![r] = Strip(o.content)]
               /\ pc' = [pc EXCEPT ![r] = "parse"]
               /\ UNCHANGED extraction
           ELSE
               /\ extraction' = [extraction EXCEPT ![r] = CallFailure(o)]
               /\ pc' = [pc EXCEPT ![r] = "failed"]
               /\ UNCHANGED response_content
    /\ UNCHANGED <<OPENAI_API_KEY, uploads, output, request, image_path,
                   input_filename, LP_extracted, response, calls>>

\* api_server.py:179-196: the direct parse of the content.
ParseDirect(r) ==
    /\ pc[r] = "parse"
    /\ LET d == DirectParse(response_content[r]) IN
        IF d.decoded THEN
            /\ extraction' = [extraction EXCEPT ![r] = d.result]
            /\ pc' = [pc EXCEPT ![r] = AfterExtraction(d.result)]
        ELSE
            /\ pc' = [pc EXCEPT ![r] = "fallback"]
            /\ UNCHANGED extraction
    /\ UNCHANGED <<OPENAI_API_KEY, api_response, uploads, output, request, image_path,
                   input_filename, LP_extracted, response_content, response, calls>>

\* api_server.py:196-215: the embedded object, after a JSONDecodeError.
ParseEmbedded(r) ==
    /\ pc[r] = "fallback"
    /\ extraction' = [extraction EXCEPT ![r] = EmbeddedParse(response_content[r])]
    /\ pc' = [pc EXCEPT ![r] = AfterExtraction(EmbeddedParse(response_content[r]))]
    /\ UNCHANGED <<OPENAI_API_KEY, api_response, uploads, output, request, image_path,
                   input_filename, LP_extracted, response_content, response, calls>>

\* The four places that delete the upload: after no detection (320-321), after
\* a failed extraction (342-343), before the success response (352-353) and in
\* the except block (369-370).
Sites == {"notfound", "failed", "ok", "except"}
Removing(site) == "remove_" \o site

\* What follows the deletion at a site: api_server.py:323-327, 345-349,
\* 356-365 (plate_data.get raises on a list or a str) and 372-377.
Finish(r, site) ==
    IF site = "notfound" THEN Respond(r, ErrorResponse(400, E_NoPlate))
    ELSE IF site = "failed" THEN Respond(r, ExtractFailure(extraction[r].usage_info))
    ELSE IF site = "except" THEN Respond(r, ErrorResponse(500, E_Internal))
    ELSE IF extraction[r].plate_data.type = "dict"
        THEN Respond(r, SuccessResponse(extraction[r].plate_data,
                                        extraction[r].model_used,
                                        extraction[r].usage_info))
    ELSE /\ pc' = [pc EXCEPT ![r] = "except"]
         /\ UNCHANGED response

\* os.path.exists(image_path); in the except block after
\* `'image_path' in locals()`.
CheckExists(r) ==
    /\ pc[r] \in Sites
    /\ IF image_path[r] # <<>> /\ exists(uploads, image_path[r])
       THEN /\ pc' = [pc EXCEPT ![r] = Removing(pc[r])]
            /\ UNCHANGED response
       ELSE Finish(r, pc[r])
    /\ UNCHANGED <<OPENAI_API_KEY, api_response, uploads, output, request, image_path,
                   input_filename, LP_extracted, response_content, extraction,
                   calls>>

\* os.remove(image_path): FileNotFoundError when the file has gone since the
\* check; raised in the except block, it leaves the handler.
Remove(r) ==
    /\ \E site \in Sites :
        /\ pc[r] = Removing(site)
        /\ IF exists(uploads, image_path[r])
           THEN /\ uploads' = remove(uploads, image_path[r])
                /\ Finish(r, site)
           ELSE /\ UNCHANGED uploads
                /\ IF site = "except" THEN Respond(r, ServerError)
                   ELSE /\ pc' = [pc EXCEPT ![r] = "except"]
                        /\ UNCHANGED response
    /\ calls' = [calls EXCEPT ![r].remove = @ + 1]
    /\ UNCHANGED <<OPENAI_API_KEY, api_response, output, request, image_path,
                   input_filename, LP_extracted, response_content, extraction>>

\* The slot of an answered request takes the next request.  The files the
\* answered request left behind stay, as files of an earlier request.
Earlier(folder, r) ==
    [n \in DOMAIN folder |-> IF folder[n] = r THEN "earlier" ELSE folder[n]]

NextRequest(r) ==
    /\ pc[r] = "done"
    /\ pc' = [pc EXCEPT ![r] = "idle"]
    /\ uploads' = Earlier(uploads, r)
    /\ output' = Earlier(output, r)
    /\ Fresh(r)
    /\ UNCHANGED OPENAI_API_KEY

Next ==
    \E r \in Reqs :
        \/ Receive(r)
        \/ Detect(r)
        \/ SaveCrop(r)
        \/ CallLLM(r)
        \/ ReplyLLM(r, SampleReplies)
        \/ ParseDirect(r)
        \/ ParseEmbedded(r)
        \/ CheckExists(r)
        \/ Remove(r)
        \/ NextRequest(r)

Spec == Init /\ [][Next]_vars

\* ------------------------------------------------------------------------
\* The reply parser on its own: a request that has its crop and a reply of the
\* extraction service, from the parse to the response.

MaxLen == 4
MaxPairs == 3

\* Every content of up to MaxLen of these tokens.
ShortAlphabet == {"{", "}", "left_number", ":", "7", ",", "Here", " "}
ShortReplies == UNION { [1..n -> ShortAlphabet] : n \in 0..MaxLen }

\* Objects of up to MaxPairs members, a key possibly repeated.
PairKinds ==
    (required_fields \X {<<"y">>, <<"7">>}) \cup {<<"x", <<"7">>>>}
PairSeqs == UNION { [1..n -> PairKinds] : n \in 0..MaxPairs }

RECURSIVE MembersText(_)
MembersText(ps) ==
    IF ps = <<>> THEN <<>>
    ELSE (IF Len(ps) > 1 THEN MembersText(SubSeq(ps, 1, Len(ps) - 1)) \o <<",">> ELSE <<>>)
         \o <<ps[Len(ps)][1], ":">> \o ps[Len(ps)][2]
ObjectText(ps) == <<"{">> \o MembersText(ps) \o <<"}">>

\* What stands around the object: nothing, blanks, prose, stray braces, an
\* earlier brace pair, a string literal with a brace, an array, an outer object.
Wrappers ==
    { <<<<>>, <<>>>>, <<<<" ">>, <<" ", " ">>>>, <<<<"Here">>, <<>>>>,
      <<<<>>, <<"Here">>>>, <<<<"Here", " ">>, <<" ", "Here">>>>,
      <<<<"{">>, <<>>>>, <<<<"Here", "{", "}">>, <<>>>>,
      <<<<"{", "Here", "}">>, <<>>>>, <<<<"a}b">>, <<>>>>, <<<<"a{b">>, <<>>>>,
      <<<<"[">>, <<"]">>>>, <<<<"{", "x", ":">>, <<"}">>>> }

ObjectReplies ==
    { w[1] \o ObjectText(ps) \o w[2] : w \in Wrappers, ps \in PairSeqs }

ReplySpace == ShortReplies \cup ObjectReplies \cup SampleReplies

Parser == "r1"

InitParser ==
    /\ OPENAI_API_KEY = TRUE
    /\ uploads = write(NoFolder, secure_filename(F_jpg), Parser)
    /\ output = write(NoFolder, extracted_filename(secure_filename(F_jpg)), Parser)
    /\ pc = [r \in Reqs |-> IF r = Parser THEN "parse" ELSE "idle"]
    /\ request = [r \in Reqs |-> NoRequest]
    /\ image_path = [r \in Reqs |-> IF r = Parser THEN secure_filename(F_jpg) ELSE <<>>]
    /\ input_filename = [r \in Reqs |-> IF r = Parser THEN secure_filename(F_jpg) ELSE <<>>]
    /\ LP_extracted = [r \in Reqs |-> IF r = Parser THEN "crop" ELSE "unset"]
    /\ \E raw \in ReplySpace :
        response_content = [r \in Reqs |-> IF r = Parser THEN Strip(raw) ELSE NoContent]
    /\ extraction = [r \in Reqs |-> NoExtraction]
    /\ response = [r \in Reqs |-> NoResponse]
    /\ api_response = [r \in Reqs |->
            IF r = Parser THEN [kind |-> "ok", status_code |-> 200, body |-> ""] ELSE NoReply]
    /\ calls = [r \in Reqs |->
            IF r = Parser THEN [NoCalls EXCEPT !.detector = 1, !.llm = 1] ELSE NoCalls]

NextParser ==
    \/ ParseDirect(Parser)
    \/ ParseEmbedded(Parser)
    \/ CheckExists(Parser)
    \/ Remove(Parser)

SpecParser == InitParser /\ [][NextParser]_vars

\* ------------------------------------------------------------------------
\* Properties

\* The handler has the outcome of the parse of its reply.
Parsed(r) ==
    /\ response_content[r] # NoContent
    /\ pc[r] \notin {"parse", "fallback"}

Answered(r) == pc[r] = "done"

\* The contiguous pieces of a content.
Slices(s) == { SubSeq(s, i, j) : i \in 1..Len(s), j \in 1..Len(s) }

\* C3: every success result (success true, status 200) has the three fields
\* left_number, middle_text and right_number, each a value that stands in the
\* reply or the sentinel UNREADABLE, whichever step of the ladder made the record.
C3_SuccessHasAllFields ==
    \A r \in Reqs :
        response[r].success =>
            /\ response[r].status = 200
            /\ DOMAIN response[r].fields = required_fields
            /\ \A f \in required_fields :
                \/ response[r].fields[f] = UNREADABLE
                \/ response[r].fields[f] \in Slices(Compact(response_content[r]))

\* A success made by the embedded-object step, with one field of the reply and
\* two sentinels.
C3_Witness ==
    \E r \in Reqs :
        /\ response[r].success
        /\ ~json_loads(response_content[r]).ok
        /\ response[r].fields["left_number"] = <<"y">>
        /\ response[r].fields["middle_text"] = UNREADABLE
        /\ response[r].fields["right_number"] = UNREADABLE

\* C4: when the whole content parses as a JSON object, the record has for each
\* required field the reply's value if the reply has the field and UNREADABLE
\* if not; a reply with all three fields gives the reply's object itself.
C4_DirectRecord ==
    \A r \in Reqs :
        LET v == json_loads(response_content[r])
            plate == extraction[r].plate_data
        IN  (Parsed(r) /\ v.ok /\ v.type = "dict") =>
                /\ plate.type = "dict"
                /\ \A f \in required_fields :
                    /\ f \in DOMAIN plate.dict
                    /\ plate.dict[f] = IF f \in DOMAIN v.dict THEN v.dict[f] ELSE UNREADABLE
                /\ required_fields \subseteq DOMAIN v.dict => plate.dict = v.dict
                /\ Answered(r) /\ response[r].success =>
                    \A f \in required_fields : response[r].fields[f] = plate.dict[f]

\* A reply with left_number alone, parsed directly: its value kept, the two
\* other fields the sentinel, and the success response built from it.
C4_Witness ==
    \E r \in Reqs :
        /\ Answered(r) /\ response[r].success
        /\ json_loads(response_content[r]).ok
        /\ DOMAIN json_loads(response_content[r]).dict = {"left_number", "x"}
        /\ extraction[r].plate_data.dict =
              [f \in required_fields |-> IF f = "left_number" THEN <<"7">> ELSE UNREADABLE]

\* The brace pairs of a content: an opening and a later closing brace with no
\* brace between them.
BracePairs(s) ==
    { p \in (1..Len(s)) \X (1..Len(s)) :
        /\ p[1] < p[2]
        /\ Opens(s[p[1]]) /\ Closes(s[p[2]])
        /\ \A k \in (p[1] + 1)..(p[2] - 1) : ~Opens(s[k]) /\ ~Closes(s[k]) }

FirstPair(s) == CHOOSE p \in BracePairs(s) : \A q \in BracePairs(s) : p[1] <= q[1]

\* The text of a pair, from its opening to its closing brace.
PairText(s, p) ==
    (IF s[p[1]] = "{" THEN <<"{">> ELSE <<"{", "b\"">>)
        \o SubSeq(s, p[1] + 1, p[2] - 1)
        \o (IF s[p[2]] = "}" THEN <<"}">> ELSE <<"\"a", "}">>)

Completed(d) == [f \in required_fields |-> IF f \in DOMAIN d THEN d[f] ELSE UNREADABLE]

ParseFailure(r) ==
    /\ extraction[r].plate_data.type = "NoneType"
    /\ extraction[r].usage_info.error = "Failed to parse JSON response from LLM"
    /\ extraction[r].usage_info.has_raw
    /\ extraction[r].usage_info.raw_response = response_content[r]

\* C5: the embedded-object step runs only when the whole content does not parse
\* as JSON; it takes the first brace pair of the content, parses its text, and
\* on success completes the record as the direct parse does; when that first
\* pair does not parse no later pair is tried and the parse has failed.
C5_EmbeddedObject ==
    \A r \in Reqs :
        LET s == response_content[r] IN
        /\ pc[r] = "fallback" => ~json_loads(s).ok
        /\ (Parsed(r) /\ ~json_loads(s).ok) =>
            IF BracePairs(s) = {} THEN ParseFailure(r)
            ELSE LET v == json_loads(PairText(s, FirstPair(s))) IN
                 IF v.ok
                 THEN /\ extraction[r].plate_data.type = "dict"
                      /\ extraction[r].plate_data.dict = Completed(v.dict)
                 ELSE ParseFailure(r)

\* A content whose first brace pair does not parse and whose later pair would:
\* the parse has failed.
C5_Witness ==
    \E r \in Reqs :
        LET s == response_content[r] IN
        /\ Parsed(r) /\ ~json_loads(s).ok
        /\ BracePairs(s) # {}
        /\ ~json_loads(PairText(s, FirstPair(s))).ok
        /\ \E q \in BracePairs(s) :
              /\ json_loads(PairText(s, q)).ok
              /\ "left_number" \in DOMAIN json_loads(PairText(s, q)).dict
        /\ ParseFailure(r)

\* C1: when a request has its response, whatever the outcome, no file the
\* request wrote is left: neither its upload under the upload folder nor the
\* crop it saved under the output folder.
C1_NoFilesLeft ==
    \A r \in Reqs :
        Answered(r) =>
            /\ \A n \in DOMAIN uploads : uploads[n] # r
            /\ \A n \in DOMAIN output : output[n] # r

\* C2: a step of a request leaves the files of every other request in flight
\* as they are, and the detector and the extraction call of a request read
\* the upload and the crop that this request wrote.
C2_RequestScoped ==
    [][\A r \in Reqs :
        pc'[r] # pc[r] =>
            /\ \A n \in DOMAIN uploads :
                uploads[n] \in Reqs \ {r} => Holder(uploads', n) = uploads[n]
            /\ \A n \in DOMAIN output :
                output[n] \in Reqs \ {r} => Holder(output', n) = output[n]
            /\ pc[r] = "detect" => Holder(uploads, image_path[r]) = r
            /\ calls'[r].llm # calls[r].llm =>
                Holder(output, extracted_filename(input_filename[r])) = r]_vars

\* A content from which no JSON object is recovered: the whole does not parse
\* and there is no brace pair or the first one does not parse.
Unrecoverable(s) ==
    /\ ~json_loads(s).ok
    /\ BracePairs(s) = {} \/ ~json_loads(PairText(s, FirstPair(s))).ok

\* C6: when no JSON object is recovered from the reply, the extraction reports
\* the parse failure with the raw content and no record, and the request is
\* answered with a failure (success false) that carries the raw content.
C6_ParseFailureReported ==
    \A r \in Reqs :
        (Parsed(r) /\ Unrecoverable(response_content[r])) =>
            /\ ParseFailure(r)
            /\ Answered(r) =>
                /\ response[r].json /\ ~response[r].success
                /\ response[r].error = E_Extract
                /\ response[r].fields = EmptyDict
                /\ response[r].details.has_raw
                /\ response[r].details.raw_response = response_content[r]

\* The part of a file name after its last "."; <<>> when there is none.
Extension(filename) ==
    IF \E i \in 1..Len(filename) : filename[i] = "."
    THEN LET i == CHOOSE i \in 1..Len(filename) :
                    filename[i] = "." /\ \A k \in (i + 1)..Len(filename) : filename[k] # "."
         IN  SubSeq(filename, i + 1, Len(filename))
    ELSE <<>>

Unsupported(filename) ==
    /\ filename # <<>>
    /\ \A e \in ALLOWED_EXTENSIONS : lower(Extension(filename)) # e

Multipart(req) == "image" \in DOMAIN req.files \/ "file" \in DOMAIN req.files

\* C7: a multipart submission whose file name (not empty: that is a missing
\* input) has no extension or one outside png, jpg, jpeg, gif, bmp, compared
\* without case, is answered 400 "Invalid file type"; the detector and the
\* extraction service are not called and the request writes no file.
C7_UnsupportedFormat ==
    \A r \in Reqs :
        (Multipart(request[r]) /\ Unsupported(ChosenFile(request[r].files).filename)) =>
            /\ Answered(r)
            /\ response[r] = ErrorResponse(400, E_Type)
            /\ calls[r] = NoCalls
            /\ image_path[r] = <<>>
            /\ \A n \in DOMAIN uploads : uploads[n] # r
            /\ \A n \in DOMAIN output : output[n] # r

\* A submission with an empty image field and a.exe in the file field,
\* answered 400 "Invalid file type" while the other request has an upload.
C7_Witness ==
    \E r \in Reqs :
        /\ Answered(r)
        /\ request[r].files = [k \in {"image", "file"} |-> IF k = "image" THEN F_empty ELSE F_exe]
        /\ response[r].status = 400 /\ response[r].error = E_Type
        /\ \E n \in DOMAIN uploads : uploads[n] \in Reqs \ {r}

\* A submission without an image: no image or file field and no body of an
\* image content type, or image and file fields that all have an empty
\* file name.
Missing(req) ==
    IF Multipart(req)
    THEN \A k \in {"image", "file"} \cap DOMAIN req.files : req.files[k] = <<>>
    ELSE ~(ImageType(req.content_type) /\ req.data > 0)

\* C8: a submission without an image is answered 400 with one of the two
\* missing-input errors, and neither the detector nor the extraction service
\* is called.
C8_MissingInput ==
    \A r \in Reqs :
        (request[r] # NoRequest /\ Missing(request[r])) =>
            /\ calls[r] = NoCalls
            /\ Answered(r) =>
                /\ response[r].status = 400
                /\ response[r].error \in {E_NoImage, E_NoFile}

\* C9: a request whose detector returned None or an empty crop is answered 400
\* "Could not detect license plate", its upload is deleted by then, and the
\* extraction service was not called.
C9_NoPlateDetected ==
    \A r \in Reqs :
        (Answered(r) /\ NotDetected(LP_extracted[r])) =>
            /\ response[r] = ErrorResponse(400, E_NoPlate)
            /\ Holder(uploads, image_path[r]) # r
            /\ calls[r].llm = 0

\* C10: a response has status 200 exactly when its body has success true and
\* the record; the missing-input, file-type and no-plate errors have status
\* 400; extraction failures and internal errors have status 500 or 502; every
\* body of a failure has success false.
C10_StatusAgreesWithSuccess ==
    \A r \in Reqs :
        Answered(r) =>
            /\ response[r].status = 200 <=>
                  (response[r].json /\ response[r].success
                      /\ DOMAIN response[r].fields = required_fields)
            /\ response[r].error \in {E_NoImage, E_NoFile, E_Type, E_NoPlate} =>
                  response[r].status = 400
            /\ response[r].error \in {E_Extract, E_Internal} =>
                  response[r].status \in {500, 502}
            /\ response[r].status \in {200, 400, 500, 502}
            /\ response[r].status # 200 => (response[r].json /\ ~response[r].success)

\* The request has come to the extraction: extract_text_with_llm is about to
\* be called or has been called.
ExtractionAttempted(r) ==
    \/ pc[r] \in {"llm", "reply", "parse", "fallback"}
    \/ calls[r].llm > 0
    \/ api_response[r] # NoReply
    \/ response_content[r] # NoContent
    \/ extraction[r] # NoExtraction

\* C11: a request comes to the extraction only after its detector was called,
\* has returned, and has returned a crop that is neither None nor empty.
C11_DetectBeforeExtract ==
    \A r \in Reqs :
        ExtractionAttempted(r) =>
            /\ calls[r].detector = 1
            /\ LP_extracted[r] = "crop"

\* One request has called the service on its crop while the other, whose
\* detector returned an empty crop, was answered without the extraction.
C11_Witness ==
    \E r, q \in Reqs :
        /\ calls[r].llm = 1 /\ LP_extracted[r] = "crop"
        /\ Answered(q) /\ LP_extracted[q] = "empty"
        /\ calls[q].detector = 1 /\ calls[q].llm = 0

\* C12: on every path to the response each file the request wrote, its upload
\* and its crop, has been deleted, and by one os.remove: none is tried twice
\* and none is left out, also when an exception follows a deletion.
C12_DeletedExactlyOnce ==
    \A r \in Reqs :
        /\ calls[r].remove <= 1
        /\ Answered(r) =>
            /\ image_path[r] # <<>> =>
                /\ calls[r].remove = 1
                /\ Holder(uploads, image_path[r]) # r
            /\ ExtractionAttempted(r) =>
                Holder(output, extracted_filename(input_filename[r])) # r

\* C13: a timeout of the call to the extraction service gives the timeout
\* error, a connection failure the connection error, and a status other than
\* 200 the service error with the status code and the service's message when
\* the body gave one; each time the content is not parsed, no record is
\* returned and the request has no success response.
C13_TransportFailures ==
    \A r \in Reqs :
        LET o == api_response[r]
            info == extraction[r].usage_info
        IN  o.kind \in {"timeout", "unreachable", "status"} =>
                /\ extraction[r].plate_data.type = "NoneType"
                /\ extraction[r].model_used = ""
                /\ response_content[r] = NoContent
                /\ ~info.has_raw
                /\ pc[r] \notin {"parse", "fallback", "ok", "remove_ok"}
                /\ ~response[r].success
                /\ o.kind = "timeout" => info.error = "OpenAI API request timed out"
                /\ o.kind = "unreachable" => info.error = "Error connecting to OpenAI API"
                /\ o.kind = "status" =>
                    /\ info.error = "OpenAI API error"
                    /\ info.status_code = o.status_code
                    /\ o.body = "json_message" => info.message = ServiceMessage
                    /\ o.body # "json_message" => info.message # ServiceMessage

\* A request whose call was answered 401 with a message, answered in turn by a
\* failure that carries the code and the message.
C13_Witness ==
    \E r \in Reqs :
        /\ api_response[r] = [kind |-> "status", status_code |-> 401, body |-> "json_message"]
        /\ Answered(r)
        /\ response[r].json /\ ~response[r].success /\ response[r].status = 500
        /\ response[r].details.status_code = 401
        /\ response[r].details.message = ServiceMessage

\* The detection or the extraction of the request has failed, or an exception
\* was raised, and the response is not yet returned.
Failing(r) ==
    pc[r] \in {"notfound", "remove_notfound", "failed", "remove_failed",
               "except", "remove_except"}

\* C14: a request calls the detector at most once and the extraction service
\* at most once, and after a failed detection or extraction it calls neither
\* again: what follows is the deletion of its upload and its failure response.
C14_NoRetry ==
    [][\A r \in Reqs :
        /\ calls'[r].detector <= 1
        /\ calls'[r].llm <= 1
        /\ Failing(r) =>
            /\ calls'[r].detector = calls[r].detector
            /\ calls'[r].llm = calls[r].llm
            /\ \/ Failing(r)'
               \/ Answered(r)' /\ ~response'[r].success /\ response'[r].status >= 400]_vars

\* A request whose one call to the service timed out, answered with a failure
\* after one call to the detector and one to the service.
C14_Witness ==
    \E r \in Reqs :
        /\ Answered(r) /\ ~response[r].success
        /\ api_response[r].kind = "timeout"
        /\ calls[r].detector = 1 /\ calls[r].llm = 1

\* C15: the parser reads the content and nothing else (api_server.py:173-215
\* holds no variable of the module and no field of the request), so it is the
\* operators DirectParse and EmbeddedParse of the content; that two parses of
\* one content agree is then true of any operator and is not stated here.

\* A content that is JSON and no object: an array, a string, a number, true,
\* false or null.
NonObject(s) == json_loads(s).ok /\ json_loads(s).type # "dict"

\* C16: a request whose reply is JSON and no object has no success response:
\* it is answered with a body that has success false and a status from 500 to
\* 599, and its upload is deleted by then.
C16_NonObjectFails ==
    \A r \in Reqs :
        (Parsed(r) /\ NonObject(response_content[r])) =>
            /\ ~response[r].success
            /\ Answered(r) =>
                /\ response[r].json
                /\ response[r].status \in 500..599
                /\ Holder(uploads, image_path[r]) # r

====
